---- MODULE Spec2Model ----
(***************************************************************************)
(* A model of scikit-gstat's variogram kernels (skgstat/models.py) and of  *)
(* its GSTools interface (skgstat/interfaces/gstools.py).                   *)
(*                                                                         *)
(* Python values are modelled as tagged records:                           *)
(*   [ty |-> "int",   v |-> n]   the int n                                  *)
(*   [ty |-> "float", v |-> c]   the float c / Scale (fixed point)          *)
(*   [ty |-> "inf", v |-> sign] and [ty |-> "nan", v |-> 0]  IEEE specials  *)
(*   [ty |-> "str",  s |-> ...], [ty |-> "function", s |-> name],           *)
(*   [ty |-> "dict", m |-> f]                                               *)
(* A Python dict is a TLA+ function whose DOMAIN is the dict's key set.     *)
(***************************************************************************)
EXTENDS Integers, Sequences, FiniteSets, TLC

VARIABLES
    MODEL_MAP,   \* the module-level registry dict of interfaces/gstools.py
    pc,          \* "idle" | "returned": position of the sequential caller
    call,        \* arguments of the last skgstat_to_gstools call
    result,      \* what that call returned or raised
    kcall,       \* arguments of the last kernel call (models.py)
    kresult,     \* what that kernel call returned
    tpc,         \* per thread: the line the thread is at in skgstat_to_gstools
    targ,        \* per thread: the call's arguments
    tloc,        \* per thread: the call's local variables
    tout         \* per thread: what the call returned or raised

vars == <<MODEL_MAP, pc, call, result, kcall, kresult, tpc, targ, tloc, tout>>

-----------------------------------------------------------------------------
(* Bounds of the model *)

\* largest number of keyword overrides a caller passes
MaxOverrides == 2
\* largest major version number of the installed GSTools
MaxMajor == 2
\* longest sequence of lags handed to a kernel
MaxLags == 3
\* number of threads that call skgstat_to_gstools at the same time
NumThreads == 2

-----------------------------------------------------------------------------
(* Python numbers *)

\* Resolution of the fixed-point model of a float: 1.0 is Scale.
Scale == 100

Int_(n) == [ty |-> "int", v |-> n]
Flt(c) == [ty |-> "float", v |-> c]
Str(s) == [ty |-> "str", s |-> s]
Fn(s) == [ty |-> "function", s |-> s]
Dict(m) == [ty |-> "dict", m |-> m]

\* IEEE not-a-number, and the infinity of sign sgn (1 or -1)
NaN == [ty |-> "nan", v |-> 0]
Inf(sgn) == [ty |-> "inf", v |-> sgn]

EmptyDict == [k \in {} |-> 0]

\* The value of a finite number in units of 1/Scale.
Centi(x) == IF x.ty = "int" THEN x.v * Scale ELSE x.v

\* float(x)
float(x) == IF x.ty \in {"nan", "inf"} THEN x ELSE Flt(Centi(x))

\* x - y on Python numbers: int - int is an int, anything else a float
PySub(x, y) ==
    IF x.ty = "int" /\ y.ty = "int"
    THEN Int_(x.v - y.v)
    ELSE Flt(Centi(x) - Centi(y))

RECURSIVE Gcd(_, _)
Gcd(a, b) == IF b = 0 THEN a ELSE Gcd(b, a % b)

RECURSIVE IPow(_, _)
IPow(x, n) == IF n = 0 THEN 1 ELSE x * IPow(x, n - 1)

\* Binary search for the largest y in lo..hi-1 with y^den <= bound.
RECURSIVE Root(_, _, _, _)
Root(lo, hi, den, bound) ==
    IF hi - lo <= 1 THEN lo
    ELSE LET mid == (lo + hi) \div 2
         IN IF IPow(mid, den) <= bound
            THEN Root(mid, hi, den, bound)
            ELSE Root(lo, mid, den, bound)

\* (x/Scale) ^ (num/den) in fixed point, rounded down: the largest y with
\* (y/Scale)^den <= (x/Scale)^num. The search stays below the root of 2^31.
FixPow(x, num, den) ==
    LET bound == IF den >= num
                 THEN IPow(x, num) * IPow(Scale, den - num)
                 ELSE IPow(x, num) \div IPow(Scale, num - den)
        hi == IF den = 1 THEN bound + 1 ELSE IF den = 2 THEN 46340 ELSE 1290
    IN Root(0, hi, den, bound)

\* x ^ e for fixed-point x and e, e taken as the fraction e/Scale in lowest terms.
power(x, e) ==
    LET g == Gcd(e, Scale)
    IN FixPow(x, e \div g, Scale \div g)

\* x ^ (1 / e) for fixed-point x and e.
powerInv(x, e) ==
    LET g == Gcd(e, Scale)
    IN FixPow(x, Scale \div g, e \div g)

-----------------------------------------------------------------------------
(* Python dicts and lists *)

\* d.setdefault(k, v) as a statement: d with k |-> v added when d has no k
SetDefault(d, k, v) ==
    IF k \in DOMAIN d THEN d
    ELSE [x \in DOMAIN d \cup {k} |-> IF x = k THEN v ELSE d[x]]

\* d[k] = v
SetItem(d, k, v) == [x \in DOMAIN d \cup {k} |-> IF x = k THEN v ELSE d[x]]

\* A dict merge in which d's items win.
UpdateDerivedWins(d, e) ==
    [x \in DOMAIN d \cup DOMAIN e |-> IF x \in DOMAIN d THEN d[x] ELSE e[x]]

\* d.update(e): e's items win
Update(d, e) ==
    [x \in DOMAIN d \cup DOMAIN e |-> IF x \in DOMAIN e THEN e[x] ELSE d[x]]

\* s[:n]
Take(s, n) == IF Len(s) <= n THEN s ELSE SubSeq(s, 1, n)

\* Python's a < b on two lists of ints: the first differing element decides,
\* a proper prefix is smaller.
RECURSIVE ListLess(_, _)
ListLess(a, b) ==
    IF b = <<>> THEN FALSE
    ELSE IF a = <<>> THEN TRUE
    ELSE IF Head(a) # Head(b) THEN Head(a) < Head(b)
    ELSE ListLess(Tail(a), Tail(b))

-----------------------------------------------------------------------------
(* Strings: a version string is a sequence of one-character strings *)

Digits == <<"0", "1", "2", "3", "4", "5", "6", "7", "8", "9">>

DigitVal(c) == (CHOOSE i \in 1..10 : Digits[i] = c) - 1

\* s.split(sep)
RECURSIVE SplitAcc(_, _, _, _)
SplitAcc(s, sep, cur, acc) ==
    IF s = <<>> THEN Append(acc, cur)
    ELSE IF Head(s) = sep
         THEN SplitAcc(Tail(s), sep, <<>>, Append(acc, cur))
         ELSE SplitAcc(Tail(s), sep, Append(cur, Head(s)), acc)

Split(s, sep) == SplitAcc(s, sep, <<>>, <<>>)

\* int(s) for a string of decimal digits
RECURSIVE IntAcc(_, _)
IntAcc(s, acc) ==
    IF s = <<>> THEN acc ELSE IntAcc(Tail(s), 10 * acc + DigitVal(Head(s)))

int(s) == IntAcc(s, 0)

\* str(n) for n >= 0, and the rendering of a version number
RECURSIVE StrOf(_)
StrOf(n) ==
    IF n < 10 THEN <<Digits[n + 1]>>
    ELSE Append(StrOf(n \div 10), Digits[(n % 10) + 1])

-----------------------------------------------------------------------------
(* Float arithmetic of models.py: fixed point with the IEEE specials *)

IsNaN(x) == x.ty = "nan"
IsInf(x) == x.ty = "inf"
Sign(x) == IF x.v < 0 THEN -1 ELSE 1

\* -x
FNeg(x) ==
    IF IsNaN(x) THEN NaN
    ELSE IF IsInf(x) THEN Inf(-x.v)
    ELSE Flt(-Centi(x))

\* x + y
FAdd(x, y) ==
    IF IsNaN(x) \/ IsNaN(y) THEN NaN
    ELSE IF IsInf(x) /\ IsInf(y) THEN (IF x.v = y.v THEN x ELSE NaN)
    ELSE IF IsInf(x) THEN x
    ELSE IF IsInf(y) THEN y
    ELSE Flt(Centi(x) + Centi(y))

\* x - y
FSub(x, y) == FAdd(x, FNeg(y))

\* x * y: 0 * inf is nan
FMul(x, y) ==
    IF IsNaN(x) \/ IsNaN(y) THEN NaN
    ELSE IF IsInf(x) \/ IsInf(y)
         THEN IF (~IsInf(x) /\ Centi(x) = 0) \/ (~IsInf(y) /\ Centi(y) = 0)
              THEN NaN
              ELSE Inf(Sign(x) * Sign(y))
    ELSE Flt((Centi(x) * Centi(y)) \div Scale)

\* x / y for a finite y other than 0
FDiv(x, y) ==
    IF IsNaN(x) THEN NaN
    ELSE IF IsInf(x) THEN Inf(Sign(x) * Sign(y))
    ELSE Flt((Centi(x) * Scale) \div Centi(y))

\* x ** n for a whole n
RECURSIVE FPowN(_, _)
FPowN(x, n) == IF n = 0 THEN Flt(Scale) ELSE FMul(x, FPowN(x, n - 1))

\* The series 1 + x + x^2/2! + ... in fixed point, for x >= 0
RECURSIVE ExpSeries(_, _, _, _)
ExpSeries(x, k, term, acc) ==
    IF term = 0 THEN acc
    ELSE ExpSeries(x, k + 1, (term * x) \div (k * Scale), acc + term)

\* math.exp(x) for x <= 0; below -6 it is under the model's resolution
exp(x) ==
    IF -Centi(x) >= 6 * Scale THEN Flt(0)
    ELSE Flt((Scale * Scale) \div ExpSeries(-Centi(x), 1, Scale, 0))

\* math.pow(x, s) and np.power(x, s) for x >= 0, s > 0
pow(x, s) == Flt(power(Centi(x), Centi(s)))

\* np.sqrt(s)
sqrt(s) == Flt(FixPow(Centi(s), 1, 2))

\* pi in fixed point
Pi == Flt((314 * Scale) \div 100)

\* special.gamma(s) for s = 0.5, 1, 1.5, 2, ...: gamma(1/2) = sqrt(pi),
\* gamma(1) = 1, gamma(s + 1) = s * gamma(s)
RECURSIVE gamma(_)
gamma(s) ==
    IF 2 * Centi(s) = Scale THEN sqrt(Pi)
    ELSE IF Centi(s) = Scale THEN Flt(Scale)
    ELSE FMul(Flt(Centi(s) - Scale), gamma(Flt(Centi(s) - Scale)))

\* special.kv(s, x), the modified Bessel function of the second kind, for a
\* half-integer order s: kv(s, 0) = inf; K_1/2(x) = sqrt(pi / 2x) e^-x,
\* K_-1/2 = K_1/2, K_v+1(x) = K_v-1(x) + (2v / x) K_v(x).
RECURSIVE kv(_, _)
kv(s, x) ==
    IF Centi(x) = 0 THEN Inf(1)
    ELSE IF 2 * Centi(s) = Scale \/ 2 * Centi(s) = -Scale
         THEN FMul(sqrt(FDiv(Pi, FMul(Flt(2 * Scale), x))), exp(FNeg(x)))
         ELSE LET v == Flt(Centi(s) - Scale)
              IN FAdd(kv(Flt(Centi(s) - 2 * Scale), x),
                      FMul(FDiv(FMul(Flt(2 * Scale), v), x), kv(v, x)))

-----------------------------------------------------------------------------
(* models.py: the kernels *)

One == Flt(Scale)

\* spherical(h, r, c0, b)
spherical(h, r, c0, b) ==
    LET a == FDiv(r, One)
    IN IF Centi(h) <= Centi(r)
       THEN FAdd(b, FMul(c0, FSub(FMul(Flt(150), FDiv(h, a)),
                                  FMul(Flt(50), FPowN(FDiv(h, a), 3)))))
       ELSE FAdd(b, c0)

\* exponential(h, r, c0, b)
exponential(h, r, c0, b) ==
    LET a == FDiv(r, Flt(3 * Scale))
    IN FAdd(b, FMul(c0, FSub(One, exp(FNeg(FDiv(h, a))))))

\* gaussian(h, r, c0, b)
gaussian(h, r, c0, b) ==
    LET a == FDiv(r, Flt(2 * Scale))
    IN FAdd(b, FMul(c0, FSub(One, exp(FNeg(FDiv(FPowN(h, 2), FPowN(a, 2)))))))

\* cubic(h, r, c0, b)
cubic(h, r, c0, b) ==
    LET a == FDiv(r, One)
        ratio(n) == FDiv(FPowN(h, n), FPowN(a, n))
    IN IF Centi(h) <= Centi(r)
       THEN FAdd(b, FMul(c0,
                FSub(FAdd(FSub(FMul(Flt(7 * Scale), ratio(2)),
                               FMul(FDiv(Flt(35 * Scale), Flt(4 * Scale)), ratio(3))),
                          FMul(FDiv(Flt(7 * Scale), Flt(2 * Scale)), ratio(5))),
                     FMul(FDiv(Flt(3 * Scale), Flt(4 * Scale)), ratio(7)))))
       ELSE FAdd(b, c0)

\* stable(h, r, c0, s, b)
stable(h, r, c0, s, b) ==
    LET a == FDiv(r, Flt(powerInv(3 * Scale, Centi(s))))
    IN FAdd(b, FMul(c0, FSub(One, exp(FNeg(pow(FDiv(h, a), s))))))

\* matern(h, r, c0, s, b)
matern(h, r, c0, s, b) ==
    LET a == FDiv(r, Flt(2 * Scale))
        z == FDiv(FMul(h, sqrt(s)), a)
    IN FAdd(b, FMul(c0, FSub(One,
            FMul(FMul(FDiv(Flt(2 * Scale), gamma(s)), pow(z, s)),
                 kv(s, FMul(Flt(2 * Scale), z))))))

-----------------------------------------------------------------------------
(* models.py: the variogram decorator *)

List(items) == [ty |-> "list", items |-> items]

\* hasattr(x, '__iter__')
HasIter(x) == x.ty \in {"list", "ndarray"}

\* func(*args): the kernel named func on positional arguments, b = 0 when left out
Apply(func, args) ==
    IF func \in {"stable", "matern"}
    THEN LET b == IF Len(args) >= 5 THEN args[5] ELSE Int_(0)
         IN IF func = "stable"
            THEN stable(args[1], args[2], args[3], args[4], b)
            ELSE matern(args[1], args[2], args[3], args[4], b)
    ELSE LET b == IF Len(args) >= 4 THEN args[4] ELSE Int_(0)
         IN CASE func = "spherical" -> spherical(args[1], args[2], args[3], b)
              [] func = "exponential" -> exponential(args[1], args[2], args[3], b)
              [] func = "gaussian" -> gaussian(args[1], args[2], args[3], b)
              [] func = "cubic" -> cubic(args[1], args[2], args[3], b)

\* np.fromiter(mapping, dtype=float)
fromiter(mapping) ==
    [ty |-> "ndarray", items |-> [i \in 1..Len(mapping) |-> float(mapping[i])]]

\* A wrapper that fills the array from the last lag to the first.
variogram_reversed(func, args) ==
    IF HasIter(args[1])
    THEN LET new_args == Tail(args)
             n == Len(args[1].items)
             mapping == [i \in 1..n |->
                            Apply(func, <<args[1].items[n + 1 - i]>> \o new_args)]
         IN fromiter(mapping)
    ELSE Apply(func, args)

\* variogram(func)(*args): the decorated kernel
variogram(func, args) ==
    IF HasIter(args[1])
    THEN LET new_args == Tail(args)
             mapping == [i \in 1..Len(args[1].items) |->
                            Apply(func, <<args[1].items[i]>> \o new_args)]
         IN fromiter(mapping)
    ELSE Apply(func, args)

-----------------------------------------------------------------------------
(* interfaces/gstools.py *)

\* stable_rescale(describe): np.power(3, 1 / describe["shape"])
stable_rescale(describe) ==
    Flt(powerInv(3 * Scale, Centi(describe["shape"])))

\* A matern_rescale whose comparisons are not strict.
matern_rescale_closed(describe) ==
    IF Scale \div 2 <= Centi(describe["smoothness"])
       /\ Centi(describe["smoothness"]) <= 10 * Scale
    THEN Flt(4 * Scale)
    ELSE Flt(6 * Scale)

\* matern_rescale(describe)
matern_rescale(describe) ==
    IF Scale \div 2 < Centi(describe["smoothness"])
       /\ Centi(describe["smoothness"]) < 10 * Scale
    THEN Flt(4 * Scale)
    ELSE Flt(6 * Scale)

\* MODEL_MAP as the module builds it at import
InitMap ==
    [name \in {"spherical", "exponential", "gaussian", "cubic", "stable", "matern"} |->
        CASE name = "spherical" -> ("gs_cls" :> Str("Spherical"))
          [] name = "exponential" ->
                ("gs_cls" :> Str("Exponential")) @@ ("rescale" :> Flt(3 * Scale))
          [] name = "gaussian" ->
                ("gs_cls" :> Str("Gaussian")) @@ ("rescale" :> Flt(2 * Scale))
          [] name = "cubic" -> ("gs_cls" :> Str("Cubic"))
          [] name = "stable" ->
                ("gs_cls" :> Str("Stable"))
                @@ ("arg_map" :> Dict("alpha" :> "shape"))
                @@ ("rescale" :> Fn("stable_rescale"))
          [] name = "matern" ->
                ("gs_cls" :> Str("Matern"))
                @@ ("arg_map" :> Dict("nu" :> "smoothness"))
                @@ ("rescale" :> Fn("matern_rescale"))]

\* callable(x)
callable(x) == x.ty = "function"

\* f(describe) for a function object f of the module
Invoke(f, describe) ==
    CASE f.s = "stable_rescale" -> stable_rescale(describe)
      [] f.s = "matern_rescale" -> matern_rescale(describe)

\* The minimum GSTools version, [1, 3]
MinMajor == 1
MinMinor == 3

\* A version check that compares the two parts as strings.
VersionTooOldText(version) ==
    LET parts == Take(Split(version, "."), 2)
        digit(c) == DigitVal(c)
        RECURSIVE TextLess(_, _)
        TextLess(a, b) ==
            IF b = <<>> THEN FALSE
            ELSE IF a = <<>> THEN TRUE
            ELSE IF Head(a) # Head(b) THEN digit(Head(a)) < digit(Head(b))
            ELSE TextLess(Tail(a), Tail(b))
        RECURSIVE PartsLess(_, _)
        PartsLess(a, b) ==
            IF b = <<>> THEN FALSE
            ELSE IF a = <<>> THEN TRUE
            ELSE IF Head(a) # Head(b) THEN TextLess(Head(a), Head(b))
            ELSE PartsLess(Tail(a), Tail(b))
    IN PartsLess(parts, <<StrOf(MinMajor), StrOf(MinMinor)>>)

\* list(map(int, gs.__version__.split(".")[:2])) < [1, 3]
VersionTooOld(version) ==
    LET parts == Take(Split(version, "."), 2)
        ints == [i \in 1..Len(parts) |-> int(parts[i])]
    IN ListLess(ints, <<MinMajor, MinMinor>>)

ImportErr == [kind |-> "ImportError", msg |-> <<"to_gstools: GSTools not installed.">>]

VersionErr ==
    [kind |-> "ValueError", msg |-> <<"to_gstools: GSTools v1.3 or greater requiered.">>]

\* "skgstat_to_gstools: model not supported: " + name
ModelErr(name) ==
    [kind |-> "ValueError", msg |-> <<"skgstat_to_gstools: model not supported: ", name>>]

\* gs_model(**gs_kwargs) for gs_model = getattr(gs, cls)
CovModel(cls, kwargs) == [kind |-> "CovModel", cls |-> cls, kwargs |-> kwargs]

\* A lookup that falls back on the spherical entry for an unknown name.
LookupOrSpherical(map, name) ==
    IF name \in DOMAIN map THEN name ELSE "spherical"

\* The registry key the call uses: name when "name in MODEL_MAP", else none
NoKey == "<not in MODEL_MAP>"

Lookup(map, name) == IF name \in DOMAIN map THEN name ELSE NoKey

\* Base keywords in which var is the sill.
BaseKwargsSill(describe) ==
    ("var" :> float(describe["sill"]))
    @@ ("len_scale" :> float(describe["effective_range"]))
    @@ ("nugget" :> float(describe["nugget"]))

\* gs_kwargs = dict(var=..., len_scale=..., nugget=...)
BaseKwargs(describe) ==
    ("var" :> float(PySub(describe["sill"], describe["nugget"])))
    @@ ("len_scale" :> float(describe["effective_range"]))
    @@ ("nugget" :> float(describe["nugget"]))

\* A defaulting step that stores the resolved rescale in the entry.
FillDefaultsStore(entry, describe) ==
    LET e == SetDefault(SetDefault(entry, "rescale", Flt(Scale)), "arg_map", Dict(EmptyDict))
    IN IF callable(e["rescale"])
       THEN SetItem(e, "rescale", Invoke(e["rescale"], describe))
       ELSE e

\* gs_describe.setdefault("rescale", 1.0); gs_describe.setdefault("arg_map", dict())
\* (describe is in scope at these lines; the two statements do not use it)
FillDefaults(entry, describe) ==
    SetDefault(SetDefault(entry, "rescale", Flt(Scale)), "arg_map", Dict(EmptyDict))

\* rescale(describe) if callable(rescale) else rescale
ResolveRescale(rescale, describe) ==
    IF callable(rescale) THEN Invoke(rescale, describe) ELSE rescale

\* for arg in arg_map: gs_kwargs[arg] = float(describe[arg_map[arg]])
ArgMapped(gs_kwargs, arg_map, describe) ==
    [x \in DOMAIN gs_kwargs \cup DOMAIN arg_map |->
        IF x \in DOMAIN arg_map THEN float(describe[arg_map[x]]) ELSE gs_kwargs[x]]

\* skgstat_to_gstools(variogram, **kwargs) run against the registry map and
\* the installed library gs: what it returns or raises, and the registry after.
skgstat_to_gstools(map, gs, variogram_, kwargs) ==
    IF ~gs.installed THEN [out |-> ImportErr, map |-> map]
    ELSE IF VersionTooOld(gs.version) THEN [out |-> VersionErr, map |-> map]
    ELSE
      LET kwargs1 == SetDefault(kwargs, "dim", variogram_.dim)
          describe == variogram_.describe
          name == describe["name"].s
          key == Lookup(map, name)
      IN IF key = NoKey THEN [out |-> ModelErr(name), map |-> map]
         ELSE
           LET map1 == [map EXCEPT ![key] = FillDefaults(@, describe)]
               gs_describe == map1[key]
               gs_kwargs == BaseKwargs(describe)
               rescale == gs_describe["rescale"]
               gs_kwargs1 == SetItem(gs_kwargs, "rescale", ResolveRescale(rescale, describe))
               arg_map == gs_describe["arg_map"].m
               gs_kwargs2 == ArgMapped(gs_kwargs1, arg_map, describe)
               gs_kwargs3 == Update(gs_kwargs2, kwargs1)
           IN [out |-> CovModel(gs_describe["gs_cls"].s, gs_kwargs3), map |-> map1]

-----------------------------------------------------------------------------
(* The callers' inputs *)

Families == {"spherical", "exponential", "gaussian", "cubic", "stable", "matern"}

\* "harmonize" is a model of scikit-gstat the interface does not support
Names == Families \cup {"harmonize"}

\* "major.minor" and "major.minor.patch"
Version2(major, minor) == StrOf(major) \o <<".">> \o StrOf(minor)
Version3(major, minor, patch) == Version2(major, minor) \o <<".">> \o StrOf(patch)

Minors == {2, 3, 9, 10}

Versions ==
    {Version2(major, minor) : major \in 0..MaxMajor, minor \in Minors}
    \cup {Version3(major, minor, 0) : major \in 0..MaxMajor, minor \in Minors}

Libraries ==
    {[installed |-> FALSE, version |-> <<>>]}
    \cup {[installed |-> TRUE, version |-> v] : v \in Versions}

\* the library the calls with overrides are made against
CurrentLibrary == [installed |-> TRUE, version |-> Version3(1, 10, 0)]

\* sill, nugget and effective range of a fitted variogram
Fits ==
    { [sill |-> Int_(6), nugget |-> Int_(1), effective_range |-> Int_(10)],
      [sill |-> Flt(250), nugget |-> Flt(50), effective_range |-> Flt(450)] }

Shapes == {Flt(50), Flt(300), Int_(2)}

Smoothnesses == {Flt(25), Flt(50), Flt(150), Int_(10), Flt(15 * Scale)}

\* Variogram.describe()
Describe(name, fit) ==
    ("name" :> Str(name)) @@ ("sill" :> fit.sill) @@ ("nugget" :> fit.nugget)
    @@ ("effective_range" :> fit.effective_range)

Describes ==
    {Describe(name, fit) : name \in Names \ {"stable", "matern"}, fit \in Fits}
    \cup {Describe("stable", fit) @@ ("shape" :> s) : fit \in Fits, s \in Shapes}
    \cup {Describe("matern", fit) @@ ("smoothness" :> s) : fit \in Fits, s \in Smoothnesses}

Variograms == {[dim |-> Int_(d), describe |-> de] : d \in {2, 3}, de \in Describes}

OverrideKeys == {"dim", "var", "len_scale", "nugget", "rescale", "alpha", "nu", "angles"}

OverrideVal(k) ==
    CASE k = "dim" -> Int_(3)
      [] k = "var" -> Flt(125)
      [] k = "len_scale" -> Flt(770)
      [] k = "nugget" -> Int_(0)
      [] k = "rescale" -> Flt(990)
      [] k = "alpha" -> Flt(150)
      [] k = "nu" -> Flt(350)
      [] k = "angles" -> Flt(79)

Overrides ==
    {[k \in K |-> OverrideVal(k)] :
        K \in {S \in SUBSET OverrideKeys : Cardinality(S) <= MaxOverrides}}

\* The calls the model makes: every library with no overrides, and the
\* current library with every set of overrides.
Calls ==
    {[gs |-> g, variogram |-> v, kwargs |-> EmptyDict] :
        g \in Libraries, v \in {w \in Variograms : w.dim = Int_(2)}}
    \cup {[gs |-> CurrentLibrary, variogram |-> v, kwargs |-> k] :
            v \in Variograms, k \in Overrides}

-----------------------------------------------------------------------------
(* The kernel callers' inputs *)

Lags == {Int_(0), Flt(50), Flt(3 * Scale)}

LagLists == UNION {[1..n -> Lags] : n \in 0..MaxLags}

\* r, c0 and, when given, b
Tails ==
    {<<r, c0>> : r \in {Flt(Scale), Flt(2 * Scale)}, c0 \in {Flt(0), Flt(2 * Scale)}}
    \cup {<<r, c0, Flt(50)>> :
            r \in {Flt(Scale), Flt(2 * Scale)}, c0 \in {Flt(0), Flt(2 * Scale)}}

\* r, c0, s and, when given, b
ShapedTails(S) ==
    {<<t[1], t[2], s>> \o SubSeq(t, 3, Len(t)) : t \in Tails, s \in S}

KernelTails(func) ==
    CASE func = "stable" -> ShapedTails({Flt(50), Flt(2 * Scale)})
      [] func = "matern" -> ShapedTails({Flt(50), Flt(150)})
      [] OTHER -> Tails

KernelCalls ==
    UNION {{[func |-> f, args |-> <<h>> \o t] :
                h \in Lags \cup {List(l) : l \in LagLists}, t \in KernelTails(f)} :
           f \in Families}

-----------------------------------------------------------------------------
(* The sequential caller *)

None == [kind |-> "None"]

\* One call of skgstat_to_gstools, from entry to return or raise.
Call(c) ==
    /\ pc = "idle"
    /\ LET r == skgstat_to_gstools(MODEL_MAP, c.gs, c.variogram, c.kwargs)
       IN /\ MODEL_MAP' = r.map
          /\ result' = r.out
    /\ call' = c
    /\ pc' = "returned"
    /\ UNCHANGED <<kcall, kresult, tpc, targ, tloc, tout>>

\* The caller drops what the call gave it and is ready for the next call.
Discard ==
    /\ pc = "returned"
    /\ pc' = "idle"
    /\ call' = None
    /\ result' = None
    /\ UNCHANGED <<MODEL_MAP, kcall, kresult, tpc, targ, tloc, tout>>

\* One call of a decorated kernel.
Evaluate(k) ==
    /\ kcall = None
    /\ kcall' = k
    /\ kresult' = variogram(k.func, k.args)
    /\ UNCHANGED <<MODEL_MAP, pc, call, result, tpc, targ, tloc, tout>>

\* The caller drops the kernel's result and is ready for the next call.
Forget ==
    /\ kcall # None
    /\ kcall' = None
    /\ kresult' = None
    /\ UNCHANGED <<MODEL_MAP, pc, call, result, tpc, targ, tloc, tout>>

Threads == 1..NumThreads

\* The calls the threads make: each family once, with and without a rescale
\* override, against a current library, and one against a library too old.
ThreadCalls ==
    LET fit == [sill |-> Int_(6), nugget |-> Int_(1), effective_range |-> Int_(10)]
        describes ==
            {Describe(name, fit) : name \in {"spherical", "exponential", "harmonize"}}
            \cup {Describe("stable", fit) @@ ("shape" :> Flt(50)),
                  Describe("stable", fit) @@ ("shape" :> Int_(2)),
                  Describe("matern", fit) @@ ("smoothness" :> Flt(150))}
    IN {[gs |-> CurrentLibrary, variogram |-> [dim |-> Int_(2), describe |-> d], kwargs |-> k] :
            d \in describes, k \in {EmptyDict, "rescale" :> Flt(990)}}
       \cup {[gs |-> [installed |-> TRUE, version |-> Version3(1, 2, 0)],
               variogram |-> [dim |-> Int_(2), describe |-> Describe("spherical", fit)],
               kwargs |-> EmptyDict]}

KeyErr(k) == [kind |-> "KeyError", msg |-> <<k>>]

\* Lines 61-72: the import, the version check, the dim default, describe()
\* and the lookup of the name in MODEL_MAP. The call ends here when it raises.
TStart(t, c) ==
    /\ tpc[t] = "idle"
    /\ targ' = [targ EXCEPT ![t] = c]
    /\ IF ~c.gs.installed
       THEN /\ tout' = [tout EXCEPT ![t] = ImportErr]
            /\ tpc' = [tpc EXCEPT ![t] = "done"]
            /\ UNCHANGED tloc
       ELSE IF VersionTooOld(c.gs.version)
       THEN /\ tout' = [tout EXCEPT ![t] = VersionErr]
            /\ tpc' = [tpc EXCEPT ![t] = "done"]
            /\ UNCHANGED tloc
       ELSE LET name == c.variogram.describe["name"].s
                key == Lookup(MODEL_MAP, name)
            IN IF key = NoKey
               THEN /\ tout' = [tout EXCEPT ![t] = ModelErr(name)]
                    /\ tpc' = [tpc EXCEPT ![t] = "done"]
                    /\ UNCHANGED tloc
               ELSE /\ tloc' = [tloc EXCEPT ![t] =
                                  [kwargs |-> SetDefault(c.kwargs, "dim", c.variogram.dim),
                                   describe |-> c.variogram.describe,
                                   gs_describe |-> key,
                                   gs_kwargs |-> EmptyDict]]
                    /\ tpc' = [tpc EXCEPT ![t] = "L73"]
                    /\ UNCHANGED tout
    /\ UNCHANGED <<MODEL_MAP, pc, call, result, kcall, kresult>>

\* Line 73: gs_describe.setdefault("rescale", 1.0), on the shared entry
T73(t) ==
    /\ tpc[t] = "L73"
    /\ MODEL_MAP' = [MODEL_MAP EXCEPT ![tloc[t].gs_describe] =
                        SetDefault(@, "rescale", Flt(Scale))]
    /\ tpc' = [tpc EXCEPT ![t] = "L74"]
    /\ UNCHANGED <<pc, call, result, kcall, kresult, targ, tloc, tout>>

\* Line 74: gs_describe.setdefault("arg_map", dict()), on the shared entry
T74(t) ==
    /\ tpc[t] = "L74"
    /\ MODEL_MAP' = [MODEL_MAP EXCEPT ![tloc[t].gs_describe] =
                        SetDefault(@, "arg_map", Dict(EmptyDict))]
    /\ tpc' = [tpc EXCEPT ![t] = "L75"]
    /\ UNCHANGED <<pc, call, result, kcall, kresult, targ, tloc, tout>>

\* Lines 75-81: the base keywords, the read of the shared entry's rescale
\* (a KeyError when the entry has none) and its resolution
T75(t) ==
    /\ tpc[t] = "L75"
    /\ LET entry == MODEL_MAP[tloc[t].gs_describe]
           describe == tloc[t].describe
       IN IF "rescale" \notin DOMAIN entry
          THEN /\ tout' = [tout EXCEPT ![t] = KeyErr("rescale")]
               /\ tpc' = [tpc EXCEPT ![t] = "done"]
               /\ UNCHANGED tloc
          ELSE /\ tloc' = [tloc EXCEPT ![t].gs_kwargs =
                             SetItem(BaseKwargs(describe), "rescale",
                                     ResolveRescale(entry["rescale"], describe))]
               /\ tpc' = [tpc EXCEPT ![t] = "L82"]
               /\ UNCHANGED tout
    /\ UNCHANGED <<MODEL_MAP, pc, call, result, kcall, kresult, targ>>

\* Lines 82-84: the read of the shared entry's arg_map (a KeyError when the
\* entry has none) and the loop over it
T82(t) ==
    /\ tpc[t] = "L82"
    /\ LET entry == MODEL_MAP[tloc[t].gs_describe]
       IN IF "arg_map" \notin DOMAIN entry
          THEN /\ tout' = [tout EXCEPT ![t] = KeyErr("arg_map")]
               /\ tpc' = [tpc EXCEPT ![t] = "done"]
               /\ UNCHANGED tloc
          ELSE /\ tloc' = [tloc EXCEPT ![t].gs_kwargs =
                             ArgMapped(@, entry["arg_map"].m, tloc[t].describe)]
               /\ tpc' = [tpc EXCEPT ![t] = "L85"]
               /\ UNCHANGED tout
    /\ UNCHANGED <<MODEL_MAP, pc, call, result, kcall, kresult, targ>>

\* Lines 85-87: the merge of the caller's keywords, the read of the shared
\* entry's gs_cls and the construction of the model
T85(t) ==
    /\ tpc[t] = "L85"
    /\ tout' = [tout EXCEPT ![t] =
                  CovModel(MODEL_MAP[tloc[t].gs_describe]["gs_cls"].s,
                           Update(tloc[t].gs_kwargs, tloc[t].kwargs))]
    /\ tpc' = [tpc EXCEPT ![t] = "done"]
    /\ UNCHANGED <<MODEL_MAP, pc, call, result, kcall, kresult, targ, tloc>>

\* The thread's caller drops what the call gave it; the thread may call again.
TFinish(t) ==
    /\ tpc[t] = "done"
    /\ tpc' = [tpc EXCEPT ![t] = "idle"]
    /\ targ' = [targ EXCEPT ![t] = None]
    /\ tloc' = [tloc EXCEPT ![t] = None]
    /\ tout' = [tout EXCEPT ![t] = None]
    /\ UNCHANGED <<MODEL_MAP, pc, call, result, kcall, kresult>>


Init ==
    /\ MODEL_MAP = InitMap
    /\ pc = "idle"
    /\ call = None
    /\ result = None
    /\ kcall = None
    /\ kresult = None
    /\ tpc = [t \in Threads |-> "idle"]
    /\ targ = [t \in Threads |-> None]
    /\ tloc = [t \in Threads |-> None]
    /\ tout = [t \in Threads |-> None]

Next ==
    \/ \E c \in Calls : Call(c)
    \/ Discard

Spec == Init /\ [][Next]_vars

NextKernel ==
    \/ \E k \in KernelCalls : Evaluate(k)
    \/ Forget

SpecKernel == Init /\ [][NextKernel]_vars

NextThreads ==
    \E t \in Threads :
        \/ \E c \in ThreadCalls : TStart(t, c)
        \/ T73(t)
        \/ T74(t)
        \/ T75(t)
        \/ T82(t)
        \/ T85(t)
        \/ TFinish(t)

SpecThreads == Init /\ [][NextThreads]_vars

-----------------------------------------------------------------------------
(* Properties of skgstat_to_gstools under Spec *)

Returned == pc = "returned"
Built == pc = "returned" /\ result.kind = "CovModel"
CallName == call.variogram.describe["name"].s
CallDescribe == call.variogram.describe

BaseKeys == {"dim", "var", "len_scale", "nugget", "rescale"}

\* C2: with no overrides the constructor gets var = sill - nugget,
\* len_scale = effective_range, nugget = nugget, dim = the variogram's dim,
\* alpha = shape for stable, nu = smoothness for matern, and for the other
\* four families exactly the keys dim, var, len_scale, nugget, rescale.
C2_DerivedKeywords ==
    (Built /\ call.kwargs = EmptyDict) =>
        LET d == CallDescribe
            kw == result.kwargs
        IN /\ kw["var"] = Flt(Centi(d["sill"]) - Centi(d["nugget"]))
           /\ kw["len_scale"] = Flt(Centi(d["effective_range"]))
           /\ kw["nugget"] = Flt(Centi(d["nugget"]))
           /\ kw["dim"] = call.variogram.dim
           /\ CallName = "stable" =>
                 /\ DOMAIN kw = BaseKeys \cup {"alpha"}
                 /\ kw["alpha"] = Flt(Centi(d["shape"]))
           /\ CallName = "matern" =>
                 /\ DOMAIN kw = BaseKeys \cup {"nu"}
                 /\ kw["nu"] = Flt(Centi(d["smoothness"]))
           /\ CallName \in {"spherical", "exponential", "gaussian", "cubic"} =>
                 DOMAIN kw = BaseKeys

\* C2 happens: the spec's example (sill 6, nugget 1, range 10, dim 2), and a
\* stable model carrying its shape as alpha.
C2_Witness ==
    /\ Built
    /\ call.kwargs = EmptyDict
    /\ CallName = "spherical"
    /\ CallDescribe["sill"] = Int_(6)
    /\ result.kwargs["var"] = Flt(5 * Scale)
    /\ result.kwargs["len_scale"] = Flt(10 * Scale)
    /\ result.kwargs["nugget"] = Flt(Scale)
    /\ result.kwargs["dim"] = Int_(2)

\* r is 3 ^ (1 / shape) in fixed point, rounded down
IsThreeToInverse(r, shape) ==
    LET g == Gcd(shape, Scale)
        p == shape \div g
        q == Scale \div g
        three == IPow(3 * Scale, q) * IPow(Scale, p)
    IN /\ IPow(r, p) * IPow(Scale, q) <= three
       /\ three < IPow(r + 1, p) * IPow(Scale, q)

\* C3: with no rescale override the constructor's rescale is 1.0 for
\* spherical and cubic, 3.0 for exponential, 2.0 for gaussian, 3^(1/shape)
\* for stable, and for matern 4.0 when 0.5 < smoothness < 10.0 and 6.0
\* otherwise, so at smoothness 0.5 and 10.0 too.
C3_RescaleDispatch ==
    (Built /\ "rescale" \notin DOMAIN call.kwargs) =>
        LET d == CallDescribe
            r == result.kwargs["rescale"]
        IN /\ r.ty = "float"
           /\ CallName \in {"spherical", "cubic"} => r.v = Scale
           /\ CallName = "exponential" => r.v = 3 * Scale
           /\ CallName = "gaussian" => r.v = 2 * Scale
           /\ CallName = "stable" =>
                 /\ IsThreeToInverse(r.v, Centi(d["shape"]))
                 /\ Centi(d["shape"]) = 2 * Scale => r.v = 173
           /\ CallName = "matern" =>
                 LET s == Centi(d["smoothness"])
                 IN /\ (Scale < 2 * s /\ s < 10 * Scale) => r.v = 4 * Scale
                    /\ (2 * s <= Scale \/ s >= 10 * Scale) => r.v = 6 * Scale

\* C3 happens: a matern model of smoothness exactly 0.5 built with rescale 6.0
C3_Witness ==
    /\ Built
    /\ "rescale" \notin DOMAIN call.kwargs
    /\ CallName = "matern"
    /\ CallDescribe["smoothness"] = Flt(50)
    /\ result.kwargs["rescale"] = Flt(6 * Scale)

\* the version strings of the versions at or above 1.3
SupportedVersions ==
    {v \in Versions :
        \E major \in 0..MaxMajor, minor \in Minors :
            /\ v \in {Version2(major, minor), Version3(major, minor, 0)}
            /\ (major > 1 \/ (major = 1 /\ minor >= 3))}

\* C5: with GSTools installed at 1.3 or later and a model name that is no key
\* of the registry, the call raises the unsupported-model error naming the
\* model, builds nothing, and leaves the registry as it was before the call.
C5_UnsupportedModel ==
    [][ (/\ pc' = "returned"
         /\ call'.gs.installed
         /\ call'.gs.version \in SupportedVersions
         /\ call'.variogram.describe["name"].s \notin DOMAIN MODEL_MAP)
        => (/\ result'.kind = "ValueError"
            /\ result'.msg = <<"skgstat_to_gstools: model not supported: ",
                               call'.variogram.describe["name"].s>>
            /\ MODEL_MAP' = MODEL_MAP) ]_vars

\* C5 happens: a harmonize variogram refused after earlier calls were served
C5_Witness ==
    /\ Returned
    /\ CallName = "harmonize"
    /\ call.gs.installed
    /\ call.gs.version \in SupportedVersions
    /\ call.kwargs # EmptyDict
    /\ result.kind = "ValueError"
    /\ MODEL_MAP # InitMap

\* C6: with GSTools installed, the call raises the unsupported-version error
\* exactly when (major, minor) is below (1, 3), minor compared as a number,
\* whatever the variogram is, a variogram of an unsupported model included.
C6_VersionGate ==
    (Returned /\ call.gs.installed) =>
        (result = VersionErr <=> call.gs.version \notin SupportedVersions)

\* C6 happens: 1.2.0 refused for an unsupported model, reported as the version
C6_Witness ==
    /\ Returned
    /\ call.gs.installed
    /\ call.gs.version = <<"1", ".", "2", ".", "0">>
    /\ CallName = "harmonize"
    /\ result = VersionErr

\* C8: every registry entry has the keys and values it had at import.
C8_RegistryUnchanged == MODEL_MAP = InitMap

\* C9: whatever calls were made before, a call returns or raises what the
\* same call returns or raises against the registry as built at import.
C9_HistoryIndependent ==
    Returned =>
        result = skgstat_to_gstools(InitMap, call.gs, call.variogram, call.kwargs).out

\* C9 happens: a stable model built after calls for other families were served
C9_Witness ==
    /\ Built
    /\ CallName = "stable"
    /\ "rescale" \in DOMAIN MODEL_MAP["spherical"]
    /\ "arg_map" \in DOMAIN MODEL_MAP["exponential"]
    /\ "arg_map" \in DOMAIN MODEL_MAP["stable"]

-----------------------------------------------------------------------------
(* Properties of the kernels under SpecKernel *)

KernelNugget ==
    IF kcall.func \in {"stable", "matern"}
    THEN (IF Len(kcall.args) >= 5 THEN kcall.args[5] ELSE Int_(0))
    ELSE (IF Len(kcall.args) >= 4 THEN kcall.args[4] ELSE Int_(0))

\* C4: matern at lag 0 returns the nugget b, for every r, c0, s and b.
C4_MaternZeroLag ==
    (/\ kcall # None
     /\ kcall.func = "matern"
     /\ ~HasIter(kcall.args[1])
     /\ Centi(kcall.args[1]) = 0)
    => kresult = float(KernelNugget)

\* C7: a decorated kernel called with a sequence of lags returns a sequence
\* of the same length whose i-th element is what the kernel returns for the
\* i-th lag alone with the same other arguments; called with one lag it
\* returns what the kernel returns.
C7_VectorScalar ==
    kcall # None =>
        LET h == kcall.args[1]
            rest == Tail(kcall.args)
        IN IF HasIter(h)
           THEN /\ kresult.ty = "ndarray"
                /\ Len(kresult.items) = Len(h.items)
                /\ \A i \in 1..Len(h.items) :
                      kresult.items[i] = variogram(kcall.func, <<h.items[i]>> \o rest)
           ELSE kresult = Apply(kcall.func, kcall.args)

\* C7 happens: three different lags in an order that is neither rising nor
\* falling, and three different results.
C7_Witness ==
    /\ kcall # None
    /\ kcall.func = "spherical"
    /\ HasIter(kcall.args[1])
    /\ kcall.args[1].items = <<Flt(3 * Scale), Int_(0), Flt(50)>>
    /\ Len(kresult.items) = 3
    /\ kresult.items[1] # kresult.items[2]
    /\ kresult.items[2] # kresult.items[3]
    /\ kresult.items[1] # kresult.items[3]

-----------------------------------------------------------------------------
(* Properties of concurrent calls under SpecThreads *)

\* Every finished call has the outcome it has when it runs alone against
\* the registry as built at import, and none met an entry lacking the
\* rescale or the arg_map it was about to read.
ThreadsOutcomeAsAlone ==
    \A t \in Threads :
        tpc[t] = "done" =>
            /\ tout[t].kind # "KeyError"
            /\ tout[t] = skgstat_to_gstools(InitMap, targ[t].gs, targ[t].variogram,
                                            targ[t].kwargs).out

\* C10: calls interleaved in any order each end with the outcome they have
\* alone, none reads an entry lacking rescale or arg_map, and no call
\* changes state the calls share: the registry stays as built at import.
C10_ConcurrentCalls ==
    /\ ThreadsOutcomeAsAlone
    /\ MODEL_MAP = InitMap

=============================================================================
